---- MODULE Spec2Model ----
(***************************************************************************)
(* A model of process_audio.py: the batch pipeline that uploads each local *)
(* .mp3 file, transcribes it (submit + poll), translates the transcript,   *)
(* synthesizes speech and writes three output artifacts to object storage. *)
(*                                                                         *)
(* The program is sequential.  Every external call (S3, Transcribe,        *)
(* Translate, Polly, the transcript fetch) is one action whose outcome is  *)
(* chosen by the environment: it returns, or it raises an exception of one *)
(* of the classes the surrounding handlers tell apart.  File names and     *)
(* base names are sequences of one-character strings, so that lower(),     *)
(* endswith(), splitext() and re.sub() are computed character by character.*)
(***************************************************************************)
EXTENDS Integers, Sequences, FiniteSets, TLC

VARIABLES
    bucket,      \* S3_BUCKET_NAME as read from the environment (line 13)
    pc,          \* position of the single thread of control
    now,         \* wall clock, whole seconds (time.time(), time.sleep)
    contents,    \* download_inputs_from_s3: objects of the listing still to visit
    localdir,    \* names download_inputs_from_s3 has written into audio_inputs/
    listing,     \* os.listdir(INPUT_FOLDER), in listing order
    idx,         \* index in listing of the entry the main loop is at
    pfCalls,     \* file paths process_file has been called with, in call order
    filename,    \* process_file: filename
    base,        \* process_file: base
    jobName,     \* process_file: transcribe_job_name
    status,      \* get_transcription_result: status of the last query
    polls,       \* get_transcription_result: queries made for this job
    transcript,  \* process_file: transcript_text
    translated,  \* process_file: translated_text
    audio,       \* process_file: audio_bytes
    exc,         \* the exception that ended the process, if one did
    submitted,   \* the job names of the run: each file a job was submitted for,
                 \* with the name of the job
    trace,       \* external calls made by the current process_file call (before
                 \* the first call: those made by download_inputs_from_s3)
    log          \* records logged by the current process_file call

vars == <<bucket, pc, now, contents, localdir, listing, idx, pfCalls, filename,
          base, jobName, status, polls, transcript, translated, audio, exc,
          submitted, trace, log>>

----------------------------------------------------------------------------
(* Bounds of the model *)

\* longest directory listing, and longest S3 listing
MaxFiles == 2
\* most non-terminal statuses the service reports for one job
MaxPolls == 1
\* seconds the clock may advance between two items without a sleep
MaxTick == 1
\* longest string the sanitization is applied to on its own
MaxLen == 2

----------------------------------------------------------------------------
(* Strings as sequences of characters *)

UpperCase == <<"A","B","C","D","E","F","G","H","I","J","K","L","M",
               "N","O","P","Q","R","S","T","U","V","W","X","Y","Z">>
LowerCase == <<"a","b","c","d","e","f","g","h","i","j","k","l","m",
               "n","o","p","q","r","s","t","u","v","w","x","y","z">>
Digits == {"0","1","2","3","4","5","6","7","8","9"}

Range(s) == {s[i] : i \in 1..Len(s)}

LowerChar(c) ==
    IF \E i \in 1..26 : UpperCase[i] = c
    THEN LowerCase[CHOOSE i \in 1..26 : UpperCase[i] = c]
    ELSE c

\* str.lower()
Lower(s) == [i \in 1..Len(s) |-> LowerChar(s[i])]

\* str.endswith(suffix)
EndsWith(s, suffix) ==
    /\ Len(s) >= Len(suffix)
    /\ SubSeq(s, Len(s) - Len(suffix) + 1, Len(s)) = suffix

DotMp3 == <<".", "m", "p", "3">>

\* fname.lower().endswith(".mp3")
IsMp3(name) == EndsWith(Lower(name), DotMp3)

\* the name cut at its last dot, wherever that dot is
SplitAtLastDot(name) ==
    LET dots == {i \in 1..Len(name) : name[i] = "."}
    IN  IF dots = {} THEN name
        ELSE SubSeq(name, 1, (CHOOSE i \in dots : \A j \in dots : j <= i) - 1)

\* os.path.splitext(filename)[0]: cut at the last dot, unless only dots
\* precede it (a leading-dot name has no extension)
SplitExtBase(name) ==
    LET dots == {i \in 1..Len(name) : name[i] = "."}
    IN  IF dots = {} THEN name
        ELSE LET d == CHOOSE i \in dots : \A j \in dots : j <= i
             IN  IF \E k \in 1..(d - 1) : name[k] # "."
                 THEN SubSeq(name, 1, d - 1)
                 ELSE name

\* the character class [A-Za-z0-9_-]
SafeChars == Range(UpperCase) \cup Range(LowerCase) \cup Digits \cup {"_", "-"}

\* the dot let through as well: the class [A-Za-z0-9_.-]
SanitizeKeepsDot(s) ==
    [i \in 1..Len(s) |-> IF s[i] \in SafeChars \cup {"."} THEN s[i] ELSE "-"]

\* re.sub(r"[^A-Za-z0-9_-]", "-", base)
Sanitize(s) == [i \in 1..Len(s) |-> IF s[i] \in SafeChars THEN s[i] ELSE "-"]

----------------------------------------------------------------------------
(* Configuration and the values the environment supplies *)

\* os.environ.get returns None for an unset variable
None == "None"
BucketValues == {None, "", "my-bucket"}

ENVIRONMENT == "beta"
INPUT_FOLDER == "audio_inputs/"
TARGET_LANGUAGE == "es"
SOURCE_LANGUAGE == "en"
SleepSeconds == 30

FileNames == {
    <<"a", ".", "m", "p", "3">>,
    <<"a", ".", "M", "p", "3">>,
    <<".", "m", "p", "3">>,
    <<"a", ".", "t", "x", "t">> }

\* sequences without repetition of at most MaxFiles file names
Listings ==
    UNION {{s \in [1..n -> FileNames] : \A i, j \in 1..n : s[i] = s[j] => i = j}
           : n \in 0..MaxFiles}

\* statuses of a transcription job
Statuses == {"QUEUED", "IN_PROGRESS", "COMPLETED", "FAILED"}

\* a loop that also leaves on IN_PROGRESS
TerminalWithInProgress == {"COMPLETED", "FAILED", "IN_PROGRESS"}
\* a loop that leaves on FAILED only
TerminalFailedOnly == {"FAILED"}

\* the statuses the poll loop leaves on, line 98
Terminal == {"COMPLETED", "FAILED"}

\* FailureReason of a FAILED job: absent, or a text
Reasons == {None, "Bad media format"}

\* what the transcript URI serves: bytes that are no JSON document, or a
\* document whose results.transcripts holds the given texts
Doc(json, transcripts) == [json |-> json, transcripts |-> transcripts]
NotJson == Doc(FALSE, <<>>)
Docs == {NotJson, Doc(TRUE, <<>>), Doc(TRUE, <<"">>),
         Doc(TRUE, <<"hello world", "second alternative">>)}

\* exception classes the handlers tell apart
ExcClientError == "ClientError"
ExcInvalidParameter == "InvalidParameterValueException"
ExcOther == "Exception"

\* object keys, job names and call records
Key(folder, name) == [env |-> ENVIRONMENT, folder |-> folder, name |-> name]
JobName(safe_base, ts) == [prefix |-> "job-", base |-> safe_base, ts |-> ts]
NoJob == JobName(<<>>, -1)
\* an external call: its arguments, how it ended ("ok" or the class of the
\* exception it raised) and, on "ok", what it returned
Call(op, args, out, ret) == [op |-> op, args |-> args, out |-> out, ret |-> ret]
\* a record written with logging.info / logging.error
Rec(level, msg, detail) == [level |-> level, msg |-> msg, detail |-> detail]

\* a job submitted for a file: TranscriptionJobName and the name in the Media URI
Submission(file, job) == [file |-> file, job |-> job]

\* results of the translation and synthesis services, as functions of their inputs
Translation(text, source, target) == [text |-> text, source |-> source, target |-> target]
NoTranslation == Translation(None, None, None)
Speech(text, voice, engine) == [text |-> text, voice |-> voice, engine |-> engine]
NoAudio == Speech(NoTranslation, None, None)

----------------------------------------------------------------------------
Init ==
    /\ bucket \in BucketValues
    /\ pc = "start"
    /\ now = 0
    /\ contents = <<>>
    /\ localdir = {}
    /\ listing = <<>>
    /\ idx = 1
    /\ pfCalls = <<>>
    /\ filename = <<>>
    /\ base = <<>>
    /\ jobName = NoJob
    /\ status = None
    /\ polls = 0
    /\ transcript = None
    /\ translated = NoTranslation
    /\ audio = NoAudio
    /\ exc = None
    /\ submitted = {}
    /\ trace = <<>>
    /\ log = <<>>

----------------------------------------------------------------------------
(* Helpers of the actions *)

mainvars == <<listing, idx, pfCalls>>
dlvars == <<contents, localdir>>
namevars == <<filename, base, jobName>>
pollvars == <<status, polls>>
resultvars == <<transcript, translated, audio>>

Called(call) == trace' = Append(trace, call)
Info(msg, detail) == log' = Append(log, Rec("INFO", msg, detail))
Error(msg, detail) == log' = Append(log, Rec("ERROR", msg, detail))
\* two records logged by one step
Errors(msg1, detail1, msg2, detail2) ==
    log' = log \o <<Rec("ERROR", msg1, detail1), Rec("ERROR", msg2, detail2)>>

\* an exception no handler catches leaves process_file and the main loop:
\* the interpreter prints the traceback and the process ends
Uncaught(e) ==
    /\ pc' = "crashed"
    /\ exc' = e

\* process_file returns; the for loop of the main block takes the next entry
Return ==
    /\ pc' = "loop"
    /\ idx' = idx + 1
    /\ status' = None
    /\ polls' = 0
    /\ transcript' = None
    /\ translated' = NoTranslation
    /\ audio' = NoAudio
    /\ UNCHANGED <<listing, pfCalls, exc>>

\* the voice chosen by synthesize_speech
VoiceId(target_language) == IF target_language = "es" THEN "Lupe" ELSE "Joanna"

\* the last alternative instead of the first
LastTranscript(doc) == doc.transcripts[Len(doc.transcripts)]

\* transcript_data["results"]["transcripts"][0]["transcript"]
FirstTranscript(doc) == doc.transcripts[1]
\* json.loads and the indexing raise on these documents
Unreadable(doc) == ~doc.json \/ Len(doc.transcripts) = 0

\* the audio written first and the transcript last
OutputKeyAudioFirst(n, b) ==
    CASE n = 3 -> Key("transcripts/", b \o <<".", "t", "x", "t">>)
      [] n = 2 -> Key("translations/", b \o <<"_">> \o <<TARGET_LANGUAGE>> \o <<".", "t", "x", "t">>)
      [] n = 1 -> Key("audio-outputs/", b \o <<"_">> \o <<TARGET_LANGUAGE>> \o <<".", "m", "p", "3">>)

\* keys of the three output artifacts, in the order they are written
OutputKey(n, b) ==
    CASE n = 1 -> Key("transcripts/", b \o <<".", "t", "x", "t">>)
      [] n = 2 -> Key("translations/", b \o <<"_">> \o <<TARGET_LANGUAGE>> \o <<".", "t", "x", "t">>)
      [] n = 3 -> Key("audio-outputs/", b \o <<"_">> \o <<TARGET_LANGUAGE>> \o <<".", "m", "p", "3">>)

InputKey(name) == Key("audio_inputs/", name)

----------------------------------------------------------------------------
(* Start of the process: lines 13-22 *)

\* a test for the unset variable only: S3_BUCKET_NAME is None
BucketIsNone(b) == b = None

\* not S3_BUCKET_NAME, line 21: the variable is unset or set to nothing
BucketMissing(b) == b \in {None, ""}

Startup ==
    /\ pc = "start"
    /\ IF BucketMissing(bucket)
       THEN /\ pc' = "aborted"
            /\ exc' = "ValueError"
       ELSE /\ pc' = "list"
            /\ exc' = exc
    /\ UNCHANGED <<bucket, submitted, now, dlvars, mainvars, namevars, pollvars, resultvars,
                   trace, log>>

(* download_inputs_from_s3: the listing, lines 42-50 *)
DownloadList ==
    /\ pc = "list"
    /\ \/ \E c \in Listings :
            /\ Called(Call("list_objects_v2", <<bucket, InputKey(<<>>)>>, "ok", c))
            /\ contents' = c
            /\ IF c = <<>>
               THEN Info("No objects found", "") /\ pc' = "listdir"
               ELSE log' = log /\ pc' = "download"
            /\ exc' = exc
       \/ \E e \in {ExcClientError, ExcOther} :
            /\ Called(Call("list_objects_v2", <<bucket, InputKey(<<>>)>>, e, <<>>))
            /\ Uncaught(e)
            /\ UNCHANGED <<contents, log>>
    /\ UNCHANGED <<bucket, submitted, now, localdir, mainvars, namevars, pollvars, resultvars>>

(* download_inputs_from_s3: one turn of the loop, lines 53-61 *)
DownloadObject ==
    /\ pc = "download"
    /\ contents # <<>>
    /\ LET key == Head(contents)
           more == IF Tail(contents) = <<>> THEN "listdir" ELSE "download"
       IN  IF IsMp3(key)
           THEN \/ /\ Called(Call("download_file", <<bucket, InputKey(key)>>, "ok", <<>>))
                   /\ localdir' = localdir \cup {key}
                   /\ Info("Downloaded", "")
                   /\ contents' = Tail(contents)
                   /\ pc' = more
                   /\ exc' = exc
                \/ \E e \in {ExcClientError, ExcOther} :
                   /\ Called(Call("download_file", <<bucket, InputKey(key)>>, e, <<>>))
                   /\ Uncaught(e)
                   /\ UNCHANGED <<contents, localdir, log>>
           ELSE /\ contents' = Tail(contents)
                /\ pc' = more
                /\ UNCHANGED <<localdir, trace, log, exc>>
    /\ UNCHANGED <<bucket, submitted, now, mainvars, namevars, pollvars, resultvars>>

(* The main block: os.path.exists and os.listdir, lines 226-229.  The folder
   exists, line 42 made it; it holds what was downloaded and whatever else
   was there, and from here on the listing stands for it. *)
ListDir ==
    /\ pc = "listdir"
    /\ \E l \in Listings :
         /\ localdir \subseteq Range(l)
         /\ listing' = l
    /\ localdir' = {}
    /\ idx' = 1
    /\ pc' = "loop"
    /\ UNCHANGED <<bucket, submitted, now, contents, pfCalls, namevars, pollvars, resultvars,
                   exc, trace, log>>

(* for fname in os.listdir(...): an entry that is no .mp3, lines 229-230 *)
LoopSkip ==
    /\ pc = "loop"
    /\ idx <= Len(listing)
    /\ ~IsMp3(listing[idx])
    /\ idx' = idx + 1
    /\ UNCHANGED <<bucket, submitted, pc, now, dlvars, listing, pfCalls, namevars, pollvars,
                   resultvars, exc, trace, log>>

(* process_file called for the next .mp3 entry while the job of the entry
   before it is still waited for *)
LoopCallWhilePolling ==
    /\ pc \in {"loop", "sleep"}
    /\ LET k == IF pc = "loop" THEN idx ELSE idx + 1
       IN  /\ k <= Len(listing)
           /\ IsMp3(listing[k])
           /\ pfCalls' = Append(pfCalls, <<INPUT_FOLDER, listing[k]>>)
           /\ filename' = listing[k]
           /\ base' = SplitExtBase(listing[k])
           /\ jobName' = JobName(Sanitize(SplitExtBase(listing[k])), now)
           /\ idx' = k
    /\ trace' = <<>>
    /\ log' = <<>>
    /\ pc' = "upload"
    /\ UNCHANGED <<bucket, submitted, now, dlvars, listing, pollvars, resultvars, exc>>

(* an .mp3 entry: process_file is called and names its objects, lines 231, 160-168 *)
LoopCall ==
    /\ pc = "loop"
    /\ idx <= Len(listing)
    /\ IsMp3(listing[idx])
    /\ pfCalls' = Append(pfCalls, <<INPUT_FOLDER, listing[idx]>>)
    /\ filename' = listing[idx]
    /\ base' = SplitExtBase(listing[idx])
    /\ jobName' = JobName(Sanitize(SplitExtBase(listing[idx])), now)
    /\ trace' = <<>>
    /\ log' = <<>>
    /\ pc' = "upload"
    /\ UNCHANGED <<bucket, submitted, now, dlvars, listing, idx, pollvars, resultvars, exc>>

(* the listing is exhausted: the process ends, status 0 *)
LoopEnd ==
    /\ pc = "loop"
    /\ idx > Len(listing)
    /\ pc' = "done"
    /\ UNCHANGED <<bucket, submitted, now, dlvars, mainvars, namevars, pollvars, resultvars,
                   exc, trace, log>>

(* Time passes.  The clock is read at line 168 only, so the time the calls of
   an item take is accounted for between two items; the time before the
   first item only moves the origin of the clock. *)
Tick ==
    /\ pc = "loop"
    /\ idx <= Len(listing)
    /\ pfCalls # <<>>
    /\ now % SleepSeconds < MaxTick
    /\ now' = now + 1
    /\ UNCHANGED <<bucket, submitted, pc, dlvars, mainvars, namevars, pollvars, resultvars,
                   exc, trace, log>>

----------------------------------------------------------------------------
(* process_file *)

\* the except clauses: which exception classes each one catches
\* except ClientError, line 70
UploadHandlerCatches(e) == e = ExcClientError
\* except ClientError in place of except Exception
StartHandlerCatchesClientErrorOnly(e) == e = ExcClientError
\* except Exception, line 88
StartHandlerCatches(e) == TRUE
\* except Exception, line 119
FetchHandlerCatches(e) == TRUE
\* except ClientError in place of except Exception
StageHandlerCatchesClientErrorOnly(e) == e = ExcClientError
\* except Exception, line 188
StageHandlerCatches(e) == TRUE
\* a fallback on every exception
FallsBackOnAnyError(e) == TRUE
\* except polly_client.exceptions.InvalidParameterValueException, line 146
FallsBack(e) == e = ExcInvalidParameter
\* except ClientError, line 219
PutHandlerCatches(e) == e = ExcClientError

\* upload_to_s3 with "return True" in its handler too
UploadToS3AlwaysTrue(out) == TRUE

\* what upload_to_s3 returns when upload_file ended with out (True on "ok",
\* False from the handler)
UploadToS3(out) == out = "ok"

\* .get("FailureReason") without the default
ReasonLoggedNoDefault(r) == r

\* the text logged for a FAILED job: .get("FailureReason", "Unknown error")
ReasonLogged(r) == IF r = None THEN "Unknown error" ELSE r

\* transcript_text is None in place of not transcript_text
TranscriptIsNone(t) == t = None

\* not transcript_text, line 180
TranscriptMissing(t) == t = None \/ t = ""

\* the transcript written as soon as it is there, before it is translated
SuccessorTranscriptFirst(p) ==
    CASE p = "upload" -> "startjob"
      [] p = "startjob" -> "query"
      [] p = "fetch" -> "put1"
      [] p = "put1" -> "translate"
      [] p = "translate" -> "synth_neural"
      [] p = "synth_neural" -> "put2"
      [] p = "synth_standard" -> "put2"
      [] p = "put2" -> "put3"
      [] p = "put3" -> "return"

\* the statements of process_file in the order it runs them; "return" after
\* the last one
Successor(p) ==
    CASE p = "upload" -> "startjob"
      [] p = "startjob" -> "query"
      [] p = "fetch" -> "translate"
      [] p = "translate" -> "synth_neural"
      [] p = "synth_neural" -> "put1"
      [] p = "synth_standard" -> "put1"
      [] p = "put1" -> "put2"
      [] p = "put2" -> "put3"
      [] p = "put3" -> "return"

\* what get_transcription_job answers: a status and, with it, a failure
\* reason or the place of the transcript
Response(s, r, u) == [status |-> s, reason |-> r, uri |-> u]
Responses ==
    {Response(s, None, None) : s \in Statuses \ {"COMPLETED", "FAILED"}}
    \cup {Response("FAILED", r, None) : r \in Reasons}
    \cup {Response("COMPLETED", None, u) : u \in {None, "uri"}}

(* upload_to_s3 and the test of its result, lines 64-72 and 171-172 *)
Upload ==
    /\ pc = "upload"
    /\ \E out \in {"ok", ExcClientError, ExcOther} :
         /\ Called(Call("upload_file",
                        <<<<INPUT_FOLDER, filename>>, bucket, InputKey(filename)>>,
                        out, <<>>))
         /\ IF out # "ok" /\ ~UploadHandlerCatches(out)
            THEN /\ Uncaught(out)
                 /\ UNCHANGED <<mainvars, pollvars, resultvars, log>>
            ELSE /\ IF out = "ok"
                    THEN Info("Uploaded", "")
                    ELSE Error("S3 Upload Error", out)
                 /\ IF UploadToS3(out)
                    THEN /\ pc' = Successor("upload")
                         /\ UNCHANGED <<mainvars, pollvars, resultvars, exc>>
                    ELSE Return
    /\ UNCHANGED <<bucket, submitted, now, dlvars, namevars>>

(* start_transcription_job, lines 75-89 and 175-176: it returns nothing,
   whether the job was started or not *)
StartJob ==
    /\ pc = "startjob"
    /\ submitted' = submitted \cup {Submission(filename, jobName)}
    /\ \E out \in {"ok", ExcClientError, ExcOther} :
         /\ Called(Call("start_transcription_job",
                        <<jobName, bucket, InputKey(filename), "mp3", "en-US">>,
                        out, <<>>))
         /\ IF out # "ok" /\ ~StartHandlerCatches(out)
            THEN /\ Uncaught(out)
                 /\ UNCHANGED log
            ELSE /\ IF out = "ok"
                    THEN Info("Transcription job started", "")
                    ELSE Error("Error starting transcription job", out)
                 /\ pc' = Successor("startjob")
                 /\ exc' = exc
    /\ UNCHANGED <<bucket, now, dlvars, mainvars, namevars, pollvars, resultvars>>

(* get_transcription_result: one query of the job and what follows from the
   status, lines 94-113; when it returns None, lines 180-182.  The query is
   in no try block. *)
Query ==
    /\ pc = "query"
    /\ polls <= MaxPolls
    /\ \/ \E resp \in Responses :
            /\ resp.status \notin {"COMPLETED", "FAILED"} => polls < MaxPolls
            /\ Called(Call("get_transcription_job", <<jobName>>, "ok",
                           <<resp.status, resp.reason, resp.uri>>))
            /\ IF resp.status \notin Terminal
               THEN /\ status' = resp.status
                    /\ polls' = polls + 1
                    /\ Info("Transcription job status. Waiting 30s...", resp.status)
                    /\ pc' = "sleep"
                    /\ UNCHANGED <<mainvars, resultvars, exc>>
               ELSE IF resp.status = "FAILED"
               THEN /\ Errors("Transcription job failed", ReasonLogged(resp.reason),
                              "Processing failed at transcription stage.", "")
                    /\ Return
               ELSE IF resp.uri = None
               THEN /\ Errors("Transcript URL not found in completed job.", "",
                              "Processing failed at transcription stage.", "")
                    /\ Return
               ELSE /\ status' = resp.status
                    /\ polls' = polls + 1
                    /\ pc' = "fetch"
                    /\ UNCHANGED <<mainvars, resultvars, exc, log>>
       \/ \E e \in {ExcClientError, ExcOther} :
            /\ Called(Call("get_transcription_job", <<jobName>>, e, <<>>))
            /\ Uncaught(e)
            /\ UNCHANGED <<mainvars, pollvars, resultvars, log>>
    /\ UNCHANGED <<bucket, submitted, now, dlvars, namevars>>

(* time.sleep(30), line 102, and back to the head of the loop *)
Sleep ==
    /\ pc = "sleep"
    /\ Called(Call("sleep", <<SleepSeconds>>, "ok", <<>>))
    /\ now' = now + SleepSeconds
    /\ pc' = "query"
    /\ UNCHANGED <<bucket, submitted, dlvars, mainvars, namevars, pollvars, resultvars, exc, log>>

(* the transcript is fetched and parsed, lines 115-121; process_file tests
   what get_transcription_result returned, lines 179-182 *)
Fetch ==
    /\ pc = "fetch"
    /\ \E out \in {"ok", ExcOther} : \E doc \in Docs :
         /\ out # "ok" => doc = NotJson
         /\ Called(Call("urlopen", <<"uri">>, out, IF out = "ok" THEN <<doc>> ELSE <<>>))
         /\ LET raised == IF out # "ok" THEN out
                          ELSE IF Unreadable(doc) THEN ExcOther
                          ELSE "ok"
                result == IF raised = "ok" THEN FirstTranscript(doc) ELSE None
            IN  IF raised # "ok" /\ ~FetchHandlerCatches(raised)
                THEN /\ Uncaught(raised)
                     /\ UNCHANGED <<mainvars, pollvars, resultvars, log>>
                ELSE IF TranscriptMissing(result)
                THEN /\ IF raised # "ok"
                        THEN Errors("Error reading transcript JSON", raised,
                                    "Processing failed at transcription stage.", "")
                        ELSE Error("Processing failed at transcription stage.", "")
                     /\ Return
                ELSE /\ transcript' = result
                     /\ pc' = Successor("fetch")
                     /\ UNCHANGED <<mainvars, pollvars, translated, audio, exc, log>>
    /\ UNCHANGED <<bucket, submitted, now, dlvars, namevars>>

\* a failed stage tried again from the translation
StageFailedRetries(e) ==
    /\ Error("Translate/Polly stage failed", e)
    /\ pc' = "translate"
    /\ UNCHANGED <<mainvars, pollvars, resultvars, exc>>

\* an exception raised inside the try of lines 185-190
StageFailed(e) ==
    IF StageHandlerCatches(e)
    THEN /\ Error("Translate/Polly stage failed", e)
         /\ Return
    ELSE /\ Uncaught(e)
         /\ UNCHANGED <<mainvars, pollvars, resultvars, log>>

(* translate_text, lines 124-131, called at line 186 *)
Translate ==
    /\ pc = "translate"
    /\ \E out \in {"ok", ExcClientError, ExcOther} :
         /\ Called(Call("translate_text",
                        <<transcript, SOURCE_LANGUAGE, TARGET_LANGUAGE>>, out, <<>>))
         /\ IF out = "ok"
            THEN /\ translated' = Translation(transcript, SOURCE_LANGUAGE, TARGET_LANGUAGE)
                 /\ pc' = Successor("translate")
                 /\ UNCHANGED <<mainvars, pollvars, transcript, audio, exc, log>>
            ELSE StageFailed(out)
    /\ UNCHANGED <<bucket, submitted, now, dlvars, namevars>>

\* one call of polly_client.synthesize_speech
SynthCall(engine, out) ==
    Call("synthesize_speech", <<VoiceId(TARGET_LANGUAGE), "mp3", translated, engine>>,
         out, <<>>)

(* synthesize_speech: the call with the neural engine, lines 137-146 and 155,
   called at line 187 *)
SynthNeural ==
    /\ pc = "synth_neural"
    /\ \E out \in {"ok", ExcInvalidParameter, ExcClientError, ExcOther} :
         /\ Called(SynthCall("neural", out))
         /\ IF out = "ok"
            THEN /\ audio' = Speech(translated, VoiceId(TARGET_LANGUAGE), "neural")
                 /\ pc' = Successor("synth_neural")
                 /\ UNCHANGED <<mainvars, pollvars, transcript, translated, exc, log>>
            ELSE IF FallsBack(out)
            THEN /\ pc' = "synth_standard"
                 /\ UNCHANGED <<mainvars, pollvars, resultvars, exc, log>>
            ELSE StageFailed(out)
    /\ UNCHANGED <<bucket, submitted, now, dlvars, namevars>>

(* synthesize_speech: the call with the standard engine, lines 146-155; it is
   made inside the except clause, so nothing it raises is caught here *)
SynthStandard ==
    /\ pc = "synth_standard"
    /\ \E out \in {"ok", ExcInvalidParameter, ExcClientError, ExcOther} :
         /\ Called(SynthCall("standard", out))
         /\ IF out = "ok"
            THEN /\ audio' = Speech(translated, VoiceId(TARGET_LANGUAGE), "standard")
                 /\ pc' = Successor("synth_standard")
                 /\ UNCHANGED <<mainvars, pollvars, transcript, translated, exc, log>>
            ELSE StageFailed(out)
    /\ UNCHANGED <<bucket, submitted, now, dlvars, namevars>>

\* Body and ContentType of the n-th put_object
OutputBody(n) ==
    CASE n = 1 -> <<transcript, "text/plain; charset=utf-8">>
      [] n = 2 -> <<translated, "text/plain; charset=utf-8">>
      [] n = 3 -> <<audio, "audio/mpeg">>

PutPc(n) == CASE n = 1 -> "put1" [] n = 2 -> "put2" [] n = 3 -> "put3"

(* the n-th put_object of lines 193-220 *)
PutObject(n) ==
    /\ pc = PutPc(n)
    /\ \E out \in {"ok", ExcClientError, ExcOther} :
         /\ Called(Call("put_object", <<bucket, OutputKey(n, base), OutputBody(n)>>,
                        out, <<>>))
         /\ IF out = "ok"
            THEN IF Successor(PutPc(n)) = "return"
                 THEN /\ Info("Successfully processed", "")
                      /\ Return
                 ELSE /\ pc' = Successor(PutPc(n))
                      /\ UNCHANGED <<mainvars, pollvars, resultvars, exc, log>>
            ELSE IF PutHandlerCatches(out)
            THEN /\ Error("Error uploading results to S3", out)
                 /\ Return
            ELSE /\ Uncaught(out)
                 /\ UNCHANGED <<mainvars, pollvars, resultvars, log>>
    /\ UNCHANGED <<bucket, submitted, now, dlvars, namevars>>

----------------------------------------------------------------------------
\* the steps of the program
Step ==
    \/ Startup
    \/ DownloadList
    \/ DownloadObject
    \/ ListDir
    \/ LoopSkip
    \/ LoopCall
    \/ LoopEnd
    \/ Upload
    \/ StartJob
    \/ Query
    \/ Sleep
    \/ Fetch
    \/ Translate
    \/ SynthNeural
    \/ SynthStandard
    \/ \E n \in 1..3 : PutObject(n)

Next == Step \/ Tick

Spec == Init /\ [][Next]_vars

\* The interpreter runs the one thread whenever it can take a step: no call
\* blocks for ever (each returns or raises).
FairSpec == Spec /\ WF_vars(Step)

----------------------------------------------------------------------------
(* The sanitization of line 167 on its own: re.sub applied to a string, and
   applied again to what it returned.  base is the string it is first applied
   to, trace the two applications, jobName the name line 168 builds. *)

\* characters inside the class (a letter of each case, a digit, the underscore,
\* the hyphen) and outside it
Chars == {"a", "Z", "7", "_", "-", " ", "."}
Strings == UNION {[1..n -> Chars] : n \in 0..MaxLen}

SanitizeInit ==
    /\ bucket = "my-bucket"
    /\ pc = "sanitize"
    /\ now = 0
    /\ contents = <<>>
    /\ localdir = {}
    /\ listing = <<>>
    /\ idx = 1
    /\ pfCalls = <<>>
    /\ filename = <<>>
    /\ base \in Strings
    /\ jobName = NoJob
    /\ status = None
    /\ polls = 0
    /\ transcript = None
    /\ translated = NoTranslation
    /\ audio = NoAudio
    /\ exc = None
    /\ submitted = {}
    /\ trace = <<>>
    /\ log = <<>>

\* safe_base = re.sub(...), transcribe_job_name = f"job-{safe_base}-{...}"
SanitizeBase ==
    /\ pc = "sanitize"
    /\ Called(Call("re.sub", <<base>>, "ok", <<Sanitize(base)>>))
    /\ jobName' = JobName(Sanitize(base), now)
    /\ pc' = "sanitized"
    /\ UNCHANGED <<bucket, submitted, now, dlvars, mainvars, filename, base, pollvars,
                   resultvars, exc, log>>

\* re.sub applied to its own result
SanitizeAgain ==
    /\ pc = "sanitized"
    /\ Called(Call("re.sub", <<jobName.base>>, "ok", <<Sanitize(jobName.base)>>))
    /\ jobName' = JobName(Sanitize(jobName.base), now)
    /\ pc' = "sanitized twice"
    /\ UNCHANGED <<bucket, submitted, now, dlvars, mainvars, filename, base, pollvars,
                   resultvars, exc, log>>

SanitizeNext == SanitizeBase \/ SanitizeAgain

SanitizeSpec == SanitizeInit /\ [][SanitizeNext]_vars

----------------------------------------------------------------------------
(* Properties *)

Last(t) == t[Len(t)]
Logged(msg) == \E i \in 1..Len(log) : log[i].msg = msg
HasCall(op) == \E i \in 1..Len(trace) : trace[i].op = op
\* the calls an item makes after its input is uploaded
LaterOps == {"start_transcription_job", "get_transcription_job", "sleep", "urlopen",
             "translate_text", "synthesize_speech", "put_object"}

\* C1: whatever way an external call made while an item is processed fails,
\* process_file returns and the run goes on: the process never ends on an
\* exception once process_file has been called.
C1_ItemFailureNeverEndsRun == ~(pc = "crashed" /\ pfCalls # <<>>)

\* C2: if the upload of an item's input file fails, no transcription job is
\* submitted for the item, its status is never queried, translate and
\* synthesize are never called and no output artifact is written: the failed
\* upload is the only call the item makes.
C2_FailedUploadStopsItem ==
    \A i \in 1..Len(trace) :
        (trace[i].op = "upload_file" /\ trace[i].out # "ok")
        => /\ \A j \in 1..Len(trace) : trace[j].op \notin LaterOps
           /\ pc \in {"loop", "done", "crashed"}

C2_Witness ==
    /\ pc = "loop"
    /\ Len(trace) = 1
    /\ trace[1].op = "upload_file"
    /\ trace[1].out = ExcClientError
    /\ Logged("S3 Upload Error")

\* C3: if a status query of an item's job answers FAILED, with or without a
\* failure reason, the reason (or "Unknown error") is logged,
\* get_transcription_result returns no transcript (process_file logs the
\* failure of the transcription stage and returns), and the query is the
\* item's last call: no translate, no synthesize, no output artifact.
C3_FailedJobStopsItem ==
    \A i \in 1..Len(trace) :
        (/\ trace[i].op = "get_transcription_job"
         /\ trace[i].out = "ok"
         /\ trace[i].ret[1] = "FAILED")
        => /\ i = Len(trace)
           /\ \E k \in 1..Len(log) :
                log[k] = Rec("ERROR", "Transcription job failed",
                             IF trace[i].ret[2] = "None" THEN "Unknown error"
                             ELSE trace[i].ret[2])
           /\ Last(log) = Rec("ERROR", "Processing failed at transcription stage.", "")
           /\ transcript = "None"
           /\ pc \in {"loop", "done"}
           /\ ~HasCall("urlopen") /\ ~HasCall("translate_text")
           /\ ~HasCall("synthesize_speech") /\ ~HasCall("put_object")

C3_Witness ==
    /\ pc = "loop"
    /\ Len(trace) = 5
    /\ trace[4].op = "sleep"
    /\ Last(trace).op = "get_transcription_job"
    /\ Last(trace).out = "ok"
    /\ Last(trace).ret = <<"FAILED", "None", "None">>
    /\ \E k \in 1..Len(log) : log[k].detail = "Unknown error"

\* C4: get_transcription_result leaves its poll loop only on a query that
\* answered COMPLETED or FAILED; after a query that answered anything else it
\* sleeps once, 30 seconds, and queries again.
C4_PollLoopLeavesOnTerminalOnly ==
    [][/\ pc = "query" =>
            LET q == Last(trace')
            IN  /\ Len(trace') = Len(trace) + 1
                /\ q.op = "get_transcription_job"
                /\ (q.out = "ok" /\ q.ret[1] \notin {"COMPLETED", "FAILED"})
                   => (pc' = "sleep" /\ status' = q.ret[1] /\ idx' = idx)
                /\ pc' # "sleep"
                   => (q.out # "ok" \/ q.ret[1] \in {"COMPLETED", "FAILED"})
       /\ pc = "sleep" =>
            /\ pc' = "query"
            /\ trace' = Append(trace, [op |-> "sleep", args |-> <<30>>,
                                       out |-> "ok", ret |-> <<>>])
            /\ now' = now + 30
            /\ status' = status
      ]_vars

C4_Witness ==
    /\ Len(trace) >= 5
    /\ trace[3].op = "get_transcription_job"
    /\ trace[3].out = "ok"
    /\ trace[3].ret[1] = "IN_PROGRESS"
    /\ trace[4].op = "sleep"
    /\ trace[5].op = "get_transcription_job"

\* the last call of the item is a status query that answered COMPLETED or FAILED
ObservedTerminal ==
    /\ trace # <<>>
    /\ Last(trace).op = "get_transcription_job"
    /\ Last(trace).out = "ok"
    /\ Last(trace).ret[1] \in {"COMPLETED", "FAILED"}

\* get_transcription_result has returned to process_file
ResultReturned == pc \in {"translate", "loop", "done"}

\* C5: once a status query has answered COMPLETED or FAILED,
\* get_transcription_result eventually returns; and as long as no query has,
\* it does not return and no later item of the batch is begun.
C5_PollEndsExactlyOnTerminal ==
    /\ ObservedTerminal ~> ResultReturned
    /\ [][(pc \in {"query", "sleep"} /\ ~ObservedTerminal')
          => (/\ pc' \in {"query", "sleep", "crashed"}
              /\ idx' = idx
              /\ pfCalls' = pfCalls)]_vars

C5_Witness ==
    /\ pc = "fetch"
    /\ ObservedTerminal
    /\ Last(trace).ret[1] = "COMPLETED"
    /\ \E i \in 1..Len(trace) : trace[i].op = "sleep"

\* the calls of the speech service the item has made, in order
SynthCalls == SelectSeq(trace, LAMBDA c : c.op = "synthesize_speech")
\* the item's last log record says the translate/synthesize stage failed with e
StageFailureLogged(e) ==
    /\ log # <<>>
    /\ Last(log) = [level |-> "ERROR", msg |-> "Translate/Polly stage failed", detail |-> e]

\* C6: synthesize_speech calls the service first with the neural engine; it
\* calls it a second time, with the standard engine and the same voice,
\* format and text, exactly when the first call was rejected as an invalid
\* parameter; it never calls it a third time; any other failure of the first
\* call and any failure of the second reaches process_file, which logs it and
\* abandons the item.
C6_OneFallbackOnInvalidParameter ==
    LET S == SynthCalls
    IN  /\ Len(S) <= 2
        /\ Len(S) >= 1 => S[1].args[4] = "neural"
        /\ Len(S) = 2 =>
             /\ S[1].out = "InvalidParameterValueException"
             /\ S[2].args = [S[1].args EXCEPT ![4] = "standard"]
        /\ (Len(S) = 1 /\ S[1].out = "InvalidParameterValueException")
           => pc = "synth_standard"
        /\ (Len(S) >= 1 /\ S[1].out \notin {"ok", "InvalidParameterValueException"})
           => (StageFailureLogged(S[1].out) /\ ~HasCall("put_object")
               /\ pc \in {"loop", "done"})
        /\ (Len(S) = 2 /\ S[2].out # "ok")
           => (StageFailureLogged(S[2].out) /\ ~HasCall("put_object")
               /\ pc \in {"loop", "done"})

C6_Witness ==
    /\ Len(SynthCalls) = 2
    /\ SynthCalls[2].out = "InvalidParameterValueException"
    /\ pc = "loop"

\* C7: an item's calls come in the order upload, job submission, status
\* queries (with the sleeps and the fetch of the transcript), translate,
\* synthesize, output writes, none skipped: the submission follows a
\* successful upload, the first query follows the submission, translate
\* follows a fetch that gave a non-empty transcript and is called with it,
\* synthesize follows a successful translate, and every output write follows
\* a successful translate and a successful synthesize.
C7_StagesInOrder ==
    pfCalls # <<>> =>
    \A i \in 1..Len(trace) :
      LET c == trace[i]
          p == trace[i - 1]
      IN  /\ c.op = "upload_file" => i = 1
          /\ c.op = "start_transcription_job" =>
               (i = 2 /\ p.op = "upload_file" /\ p.out = "ok")
          /\ c.op = "get_transcription_job" =>
               /\ i >= 3
               /\ trace[2].op = "start_transcription_job"
               /\ (i = 3 \/ p.op = "sleep")
          /\ c.op = "sleep" =>
               (i > 3 /\ p.op = "get_transcription_job" /\ p.out = "ok"
                /\ p.ret[1] \notin {"COMPLETED", "FAILED"})
          /\ c.op = "urlopen" =>
               (i > 3 /\ p.op = "get_transcription_job" /\ p.out = "ok"
                /\ p.ret[1] = "COMPLETED")
          /\ c.op = "translate_text" =>
               /\ i > 4
               /\ p.op = "urlopen"
               /\ p.out = "ok"
               /\ p.ret[1].json
               /\ Len(p.ret[1].transcripts) >= 1
               /\ p.ret[1].transcripts[1] # ""
               /\ c.args[1] = p.ret[1].transcripts[1]
          /\ c.op = "synthesize_speech" =>
               /\ i > 5
               /\ \/ p.op = "translate_text" /\ p.out = "ok"
                  \/ p.op = "synthesize_speech" /\ p.out # "ok"
          /\ c.op = "put_object" =>
               /\ i > 6
               /\ \E j \in 1..(i - 1) : trace[j].op = "translate_text" /\ trace[j].out = "ok"
               /\ \E j \in 1..(i - 1) : trace[j].op = "synthesize_speech" /\ trace[j].out = "ok"
               /\ \/ p.op = "synthesize_speech" /\ p.out = "ok"
                  \/ p.op = "put_object" /\ p.out = "ok"
          /\ c.op \in {"upload_file"} \cup LaterOps

C7_Witness ==
    /\ pc = "loop"
    /\ Logged("Successfully processed")
    /\ HasCall("sleep")
    /\ Len(SynthCalls) = 2
    /\ Len(SelectSeq(trace, LAMBDA c : c.op = "put_object")) = 3

\* a name that ends in .mp3, whatever the case of its letters
EndsInMp3(name) ==
    /\ Len(name) >= 4
    /\ name[Len(name) - 3] = "."
    /\ name[Len(name) - 2] \in {"m", "M"}
    /\ name[Len(name) - 1] \in {"p", "P"}
    /\ name[Len(name)] = "3"

\* translate_text or synthesize_speech has raised for the item
StageRaised ==
    \E i \in 1..Len(trace) :
       \/ trace[i].op = "translate_text" /\ trace[i].out # "ok"
       \/ /\ trace[i].op = "synthesize_speech"
          /\ trace[i].out # "ok"
          /\ ~(trace[i].args[4] = "neural"
               /\ trace[i].out = "InvalidParameterValueException")

\* index in the listing of the item process_file was last called with
Current == CHOOSE k \in 1..Len(listing) : listing[k] = filename

\* C8: if translate_text or synthesize_speech raises any exception for an
\* item, process_file catches it: the process does not end, the failure is
\* logged, none of the item's three output artifacts is written, and the main
\* loop is past the item, having skipped nothing but entries that are no .mp3.
C8_StageFailureAbandonsItemOnly ==
    StageRaised =>
        /\ pc \in {"loop", "done"}
        /\ exc = "None"
        /\ Last(trace).out # "ok"
        /\ StageFailureLogged(Last(trace).out)
        /\ ~HasCall("put_object")
        /\ idx > Current
        /\ \A j \in (Current + 1)..(idx - 1) : ~EndsInMp3(listing[j])
        /\ pc = "done" => idx > Len(listing)

C8_Witness ==
    /\ StageRaised
    /\ Len(SynthCalls) = 2
    /\ Last(trace).out = "Exception"
    /\ pc = "loop"
    /\ idx <= Len(listing)
    /\ EndsInMp3(listing[idx])

\* C9: after COMPLETED, get_transcription_result returns the first
\* alternative of the fetched document (process_file translates exactly that
\* text when it is not empty); when the transcript location is absent, the
\* fetch fails, the bytes are no JSON or the document has no transcripts, it
\* raises nothing and returns no transcript: process_file logs the failure of
\* the transcription stage and the item ends before translate is called.
C9_TranscriptIsFirstAlternativeOrAbsent ==
    \A i \in 1..Len(trace) :
      LET c == trace[i]
          readable == c.out = "ok" /\ c.ret[1].json /\ Len(c.ret[1].transcripts) >= 1
          abandoned ==
              /\ i = Len(trace)
              /\ pc \in {"loop", "done"}
              /\ exc = "None"
              /\ Last(log) = [level |-> "ERROR", detail |-> "",
                              msg |-> "Processing failed at transcription stage."]
      IN  /\ (c.op = "get_transcription_job" /\ c.out = "ok"
              /\ c.ret[1] = "COMPLETED" /\ c.ret[3] = "None")
             => (abandoned /\ Logged("Transcript URL not found in completed job."))
          /\ (c.op = "urlopen" /\ ~readable)
             => (abandoned /\ Logged("Error reading transcript JSON"))
          /\ (c.op = "urlopen" /\ readable /\ c.ret[1].transcripts[1] = "")
             => abandoned
          /\ (c.op = "urlopen" /\ readable /\ c.ret[1].transcripts[1] # "")
             => /\ i = Len(trace) => (pc = "translate"
                                      /\ transcript = c.ret[1].transcripts[1])
                /\ i < Len(trace) => (trace[i + 1].op = "translate_text"
                                      /\ trace[i + 1].args[1] = c.ret[1].transcripts[1])

C9_Witness ==
    /\ pc = "loop"
    /\ Last(trace).op = "urlopen"
    /\ Last(trace).out = "ok"
    /\ Last(trace).ret[1].json
    /\ Last(trace).ret[1].transcripts = <<>>

\* C10: when the run has ended, process_file has been called exactly once
\* for each entry of the listing whose name ends in .mp3 (case-insensitively),
\* for no other entry, and in listing order.
C10_EveryMp3EntryProcessedOnce ==
    pc \in {"done", "crashed"} =>
        pfCalls = [i \in 1..Len(SelectSeq(listing, EndsInMp3)) |->
                      <<"audio_inputs/", SelectSeq(listing, EndsInMp3)[i]>>]

\* the part of a file name before its extension.  The extension starts at the
\* last dot of the name; a name whose last dot has only dots before it is a
\* dot-file and has no extension.
Stem(name) ==
    IF \E d \in 1..Len(name) :
          /\ name[d] = "."
          /\ \A j \in (d + 1)..Len(name) : name[j] # "."
          /\ \E k \in 1..(d - 1) : name[k] # "."
    THEN SubSeq(name, 1, (CHOOSE d \in 1..Len(name) :
                             /\ name[d] = "."
                             /\ \A j \in (d + 1)..Len(name) : name[j] # ".") - 1)
    ELSE name
\* the object-storage writes of the current item, in the order they were made
Writes == SelectSeq(trace, LAMBDA c : c.op \in {"upload_file", "put_object"})
StartCalls == SelectSeq(trace, LAMBDA c : c.op = "start_transcription_job")
ObjectKey(folder, name) == [env |-> "beta", folder |-> folder, name |-> name]

\* C11: when every stage of an item has succeeded, process_file has written
\* exactly four objects, each once: the input under
\* {env}/audio_inputs/{filename}, then {env}/transcripts/{base}.txt,
\* {env}/translations/{base}_es.txt and {env}/audio-outputs/{base}_es.mp3,
\* where base is the file name without its extension; the one job it
\* submitted is named job-{base with every character outside [A-Za-z0-9_-]
\* replaced by a hyphen}-{a reading of the clock}.
C11_FourWritesAndJobName ==
    Logged("Successfully processed") =>
        LET f == Last(pfCalls)[2]
            b == Stem(f)
        IN  /\ Len(Writes) = 4
            /\ \A i \in 1..4 : Writes[i].out = "ok"
            /\ Writes[1].op = "upload_file"
            /\ Writes[1].args[3] = ObjectKey("audio_inputs/", f)
            /\ \A i \in 2..4 : Writes[i].op = "put_object"
            /\ Writes[2].args[2] = ObjectKey("transcripts/", b \o <<".", "t", "x", "t">>)
            /\ Writes[3].args[2] =
                  ObjectKey("translations/", b \o <<"_", "es", ".", "t", "x", "t">>)
            /\ Writes[4].args[2] =
                  ObjectKey("audio-outputs/", b \o <<"_", "es", ".", "m", "p", "3">>)
            /\ Len(StartCalls) = 1
            /\ StartCalls[1].args[1].prefix = "job-"
            /\ Len(StartCalls[1].args[1].base) = Len(b)
            /\ \A i \in 1..Len(b) :
                  StartCalls[1].args[1].base[i] =
                      IF b[i] \in SafeChars THEN b[i] ELSE "-"
            /\ StartCalls[1].args[1].ts \in 0..now

\* an item named ".mp3", whose base is the whole name, has succeeded
C11_Witness ==
    /\ Logged("Successfully processed")
    /\ Last(pfCalls)[2] = <<".", "m", "p", "3">>
    /\ Len(Writes) = 4

\* ^[A-Za-z0-9_-]+$ : one character or more, all of the class
MatchesPlus(s) == Len(s) >= 1 /\ \A i \in 1..Len(s) : s[i] \in SafeChars
\* ^[A-Za-z0-9_-]*$
MatchesStar(s) == \A i \in 1..Len(s) : s[i] \in SafeChars
Applications == SelectSeq(trace, LAMBDA c : c.op = "re.sub")
\* applied to its own result, the sanitization returns that result
Idempotent ==
    \A i \in 2..Len(Applications) :
        Applications[i].args[1] = Applications[i - 1].ret[1]
            => Applications[i].ret[1] = Applications[i].args[1]

\* C12 as stated: the sanitization returns for every string, it is
\* idempotent, and what it returns matches ^[A-Za-z0-9_-]+$ for any string.
C12_SanitizedMatchesPattern ==
    /\ Idempotent
    /\ \A i \in 1..Len(Applications) :
          Applications[i].out = "ok" /\ MatchesPlus(Applications[i].ret[1])

\* C12, amended: the sanitization returns for every string and is idempotent;
\* what it returns has the length of its argument and characters of
\* [A-Za-z0-9_-] only, so it matches ^[A-Za-z0-9_-]+$ exactly when the
\* argument is not the empty string; the empty string is returned as it is.
C12_SanitizedMatchesPatternUnlessEmpty ==
    /\ Idempotent
    /\ \A i \in 1..Len(Applications) :
          /\ Applications[i].out = "ok"
          /\ Len(Applications[i].ret[1]) = Len(Applications[i].args[1])
          /\ MatchesStar(Applications[i].ret[1])
          /\ MatchesPlus(Applications[i].ret[1]) <=> Applications[i].args[1] # <<>>

\* a string with a character outside the class has been sanitized twice
C12_Witness ==
    /\ Len(Applications) = 2
    /\ Applications[1].args[1] = <<"a", ".">>
    /\ Applications[2].args[1] = <<"a", "-">>

\* C13: when the bucket name is unset or empty, the process ends at its start
\* with an error, before any work: nothing is listed, downloaded, uploaded or
\* submitted, no other external call is made, process_file is never called
\* and nothing is logged.
C13_NoBucketNoWork ==
    bucket \in {"None", ""} =>
        /\ pc \in {"start", "aborted"}
        /\ pc = "aborted" => exc = "ValueError"
        /\ trace = <<>>
        /\ pfCalls = <<>>
        /\ log = <<>>
        /\ listing = <<>> /\ contents = <<>> /\ localdir = {}

\* the process has aborted on an empty bucket name
C13_Witness == bucket = "" /\ pc = "aborted" /\ exc = "ValueError"

\* C14: a submission that fails is logged as an error and nothing else comes
\* of it: the process does not end on it, and process_file goes on to query
\* the status of the job name it tried to submit, as it does after a
\* submission that succeeded.
C14_FailedSubmissionIsPolledAnyway ==
    \A i \in 1..Len(trace) :
        trace[i].op = "start_transcription_job" =>
            /\ trace[i].out # "ok" =>
                  \E k \in 1..Len(log) :
                      log[k] = [level |-> "ERROR",
                                msg |-> "Error starting transcription job",
                                detail |-> trace[i].out]
            /\ i = Len(trace) => pc = "query" /\ exc = "None"
            /\ i < Len(trace) =>
                  /\ trace[i + 1].op = "get_transcription_job"
                  /\ trace[i + 1].args[1] = trace[i].args[1]

\* the status of a job whose submission raised has been queried
C14_Witness ==
    \E i \in 1..(Len(trace) - 1) :
        /\ trace[i].op = "start_transcription_job"
        /\ trace[i].out = "Exception"
        /\ trace[i + 1].op = "get_transcription_job"
        /\ trace[i + 1].args[1] = trace[i].args[1]

\* the positions of control inside process_file
InsideProcessFile == {"upload", "startjob", "query", "sleep", "fetch", "translate",
                      "synth_neural", "synth_standard", "put1", "put2", "put3"}
\* the call was made for the file f
CallIsFor(c, f) ==
    CASE c.op = "upload_file" -> c.args[1] = <<"audio_inputs/", f>> /\ c.args[3].name = f
      [] c.op = "start_transcription_job" -> c.args[3].name = f
      [] c.op = "put_object" ->
            /\ Len(c.args[2].name) > Len(Stem(f))
            /\ SubSeq(c.args[2].name, 1, Len(Stem(f))) = Stem(f)
      [] OTHER -> TRUE
JobsPolled == {trace[i].args[1] : i \in {j \in 1..Len(trace) : trace[j].op = "get_transcription_job"}}
JobsSubmitted == {trace[i].args[1] : i \in {j \in 1..Len(trace) : trace[j].op = "start_transcription_job"}}

\* every call made so far is for the item process_file was called with last
SerialCalls ==
    pfCalls # <<>> =>
        /\ (pc \in InsideProcessFile) =>
              /\ filename = Last(pfCalls)[2]
              /\ \A k \in 1..Len(listing) : (listing[k] = filename) => (k = idx)
        /\ \A i \in 1..Len(trace) : CallIsFor(trace[i], Last(pfCalls)[2])
        /\ Cardinality(JobsPolled) <= 1
        /\ (JobsPolled # {}) => (JobsPolled = JobsSubmitted)
\* process_file is called from the main loop only; an item's calls are made
\* one after the other
SerialStep ==
    /\ (pfCalls' # pfCalls) =>
          /\ pc = "loop"
          /\ Len(pfCalls') = Len(pfCalls) + 1
          /\ trace' = <<>>
    /\ (trace' # trace /\ pfCalls' = pfCalls /\ pfCalls # <<>>) =>
          /\ pc \in InsideProcessFile
          /\ Len(trace') = Len(trace) + 1
          /\ SubSeq(trace', 1, Len(trace)) = trace

\* C15: the items are processed strictly one after the other: process_file is
\* called for an item only when control is in the main loop, no call for an
\* earlier item pending; until then every external call is made for the item
\* called last, one call after the other; all the status queries made in
\* between name one job, the one submitted for that item.
C15_OneItemAtATime == []SerialCalls /\ [][SerialStep]_vars

\* the job of the second item of a run is being polled
C15_Witness ==
    /\ Len(pfCalls) = 2
    /\ pc = "sleep"
    /\ trace[Len(trace)].op = "get_transcription_job"

CallsOf(op) == SelectSeq(trace, LAMBDA c : c.op = op)
\* the three outputs that can be written for the file f
OutputKeysOf(f) ==
    {ObjectKey("transcripts/", Stem(f) \o <<".", "t", "x", "t">>),
     ObjectKey("translations/", Stem(f) \o <<"_", "es", ".", "t", "x", "t">>),
     ObjectKey("audio-outputs/", Stem(f) \o <<"_", "es", ".", "m", "p", "3">>)}

\* C16: nothing is tried twice but the status query and the synthesis: for
\* one item the input upload, the job submission, the transcript fetch and
\* the translate call are made at most once each, synthesize at most twice
\* (neural, then standard), and each of the three output keys is written at
\* most once, whether the calls succeed or fail.
C16_NoRetries ==
    pfCalls # <<>> =>
        /\ Len(CallsOf("upload_file")) <= 1
        /\ Len(CallsOf("start_transcription_job")) <= 1
        /\ Len(CallsOf("urlopen")) <= 1
        /\ Len(CallsOf("translate_text")) <= 1
        /\ Len(CallsOf("synthesize_speech")) <= 2
        /\ Len(CallsOf("put_object")) <= 3
        /\ \A i \in 1..Len(CallsOf("put_object")) :
              /\ CallsOf("put_object")[i].args[2] \in OutputKeysOf(Last(pfCalls)[2])
              /\ \A j \in 1..Len(CallsOf("put_object")) :
                    (CallsOf("put_object")[i].args[2] = CallsOf("put_object")[j].args[2])
                        => (i = j)

\* an item has ended on a translate call that failed, made once
C16_Witness ==
    /\ pc = "loop"
    /\ Len(CallsOf("translate_text")) = 1
    /\ CallsOf("translate_text")[1].out = "ClientError"
    /\ trace[Len(trace)].op = "translate_text"

Puts == SelectSeq(trace, LAMBDA c : c.op = "put_object")
\* an output of the current item has been written under the folder
Written(folder) ==
    \E i \in 1..Len(Puts) : Puts[i].args[2].folder = folder /\ Puts[i].out = "ok"

\* C17: the outputs of an item are written in the order transcript,
\* translation, audio, and a write that fails is the last call of the item:
\* so the audio is written only if the translation is, the translation only
\* if the transcript is, and the success message is logged only when all
\* three are written.
C17_OutputsInOrder ==
    pfCalls # <<>> =>
        /\ Len(Puts) <= 3
        /\ \A i \in 1..Len(Puts) :
              /\ Puts[i].args[2].folder =
                    <<"transcripts/", "translations/", "audio-outputs/">>[i]
              /\ (Puts[i].out # "ok") =>
                    /\ i = Len(Puts)
                    /\ trace[Len(trace)] = Puts[i]
                    /\ pc \notin InsideProcessFile
        /\ Written("audio-outputs/") => Written("translations/")
        /\ Written("translations/") => Written("transcripts/")
        /\ Logged("Successfully processed") =>
              /\ Written("transcripts/")
              /\ Written("translations/")
              /\ Written("audio-outputs/")

\* the write of the translation has failed after the transcript was written
C17_Witness ==
    /\ Len(Puts) = 2
    /\ Puts[1].out = "ok"
    /\ Puts[2].out = "ClientError"
    /\ pc = "loop"
    /\ ~Logged("Successfully processed")

\* C18: two different input files of one run are never submitted under the
\* same job name, whatever their names and whenever they are processed.
C18_JobNamesDistinct ==
    \A s1, s2 \in submitted : (s1.file # s2.file) => (s1.job # s2.job)

\* the transcript service answered with a document whose first transcript is
\* the empty string
EmptyTranscriptFetched ==
    /\ trace # <<>>
    /\ \E i \in 1..Len(trace) :
          /\ trace[i].op = "urlopen"
          /\ trace[i].out = "ok"
          /\ trace[i].ret[1].json
          /\ Len(trace[i].ret[1].transcripts) >= 1
          /\ trace[i].ret[1].transcripts[1] = ""

\* C19: a job that is COMPLETED with the empty string as its transcript is
\* handled like a failed transcription: the transcription-stage error is
\* logged and process_file returns; nothing is translated or synthesized and
\* no output is written for the item.
C19_EmptyTranscriptIsFailure ==
    EmptyTranscriptFetched =>
        /\ trace[Len(trace)].op = "urlopen"
        /\ trace[Len(trace) - 1].op = "get_transcription_job"
        /\ trace[Len(trace) - 1].ret[1] = "COMPLETED"
        /\ log[Len(log)] = [level |-> "ERROR",
                            msg |-> "Processing failed at transcription stage.",
                            detail |-> ""]
        /\ pc \in {"loop", "done"}
        /\ \A i \in 1..Len(trace) :
              trace[i].op \notin {"translate_text", "synthesize_speech", "put_object"}

\* an item has ended on an empty transcript
C19_Witness == EmptyTranscriptFetched /\ pc = "loop" /\ idx = 2

====
